---- MODULE Spec2Model ----
(***************************************************************************)
(* A model of BackupService (src/src/backup/backup.service.ts): label      *)
(* discovery, extractBackupConfig, the executeBackup pipeline,             *)
(* execInContainer and cleanupOldBackups.                                  *)
(*                                                                         *)
(* JavaScript strings are sequences of one-character strings wherever the  *)
(* code looks inside them (parseInt, includes, replace); `undefined` is    *)
(* the one-element sequence Undefined, which is no string of characters.   *)
(* A JavaScript number is a record [nan, n]: NaN has nan = TRUE.           *)
(***************************************************************************)
EXTENDS Integers, Sequences, FiniteSets, TLC

VARIABLES
    unitIn,     \* the argument of the function under test (unit specifications)
    unitOut,    \* its results so far, a sequence
    docker,     \* what docker.listContainers({all: true}) returns
    cron,       \* the CronJob: "none", "running", "stopped"
    runs,       \* every runBackups invocation, by slot
    hostFs,     \* the host backup tree: directory name -> set of files
    clock,      \* the wall clock, Date.now()
    fired,      \* how many times onTick has been invoked
    boot        \* onModuleInit: "none", "ensureDir" (awaited), "ready", "failed"

vars == <<unitIn, unitOut, docker, cron, runs, hostFs, clock, fired, boot>>

----------------------------------------------------------------------------
(* Bounds *)

\* longest `.retention` label value drawn
MaxLabelLen == 2
\* most containers docker lists
MaxContainers == 2
\* most invocations of onTick
MaxTicks == 2
\* most files in a directory handed to cleanupOldBackups on its own
MaxFiles == 3
\* most data chunks an exec stream delivers
MaxChunks == 2
\* most invocations of onTick when every step of every tick succeeds
MaxRetentionTicks == 3

----------------------------------------------------------------------------
(* JavaScript values *)

Undefined == <<"undefined-value">>

NaN == [nan |-> TRUE, n |-> 0]

Num(k) == [nan |-> FALSE, n |-> k]

\* a value is truthy unless it is undefined or the empty string
Truthy(s) == s # Undefined /\ s # <<>>

\* labels[key]
Get(labels, key) == IF key \in DOMAIN labels THEN labels[key] ELSE Undefined

\* a ?? b
Nullish(a, b) == IF a = Undefined THEN b ELSE a

\* String.prototype.includes for a one-character needle
IncludesChar(s, c) == \E i \in DOMAIN s : s[i] = c

\* String.prototype.includes
Includes(s, needle) ==
    \E i \in 0..(Len(s) - Len(needle)) :
        \A j \in 1..Len(needle) : s[i + j] = needle[j]

\* String.prototype.replace(c, '') with a string pattern: the first occurrence only
ReplaceFirst(s, c) ==
    IF IncludesChar(s, c)
    THEN LET i == CHOOSE k \in DOMAIN s : s[k] = c /\ \A m \in 1..(k - 1) : s[m] # c
         IN  SubSeq(s, 1, i - 1) \o SubSeq(s, i + 1, Len(s))
    ELSE s

Digits == <<"0", "1", "2", "3", "4", "5", "6", "7", "8", "9">>

IsDigit(c) == \E i \in DOMAIN Digits : Digits[i] = c

DigitVal(c) == (CHOOSE i \in DOMAIN Digits : Digits[i] = c) - 1

RECURSIVE StripLeadingSpace(_)
StripLeadingSpace(s) ==
    IF s # <<>> /\ Head(s) = " " THEN StripLeadingSpace(Tail(s)) ELSE s

\* the longest prefix of s made of decimal digits
RECURSIVE DigitPrefix(_)
DigitPrefix(s) ==
    IF s # <<>> /\ IsDigit(Head(s)) THEN <<Head(s)>> \o DigitPrefix(Tail(s)) ELSE <<>>

RECURSIVE DecimalValue(_)
DecimalValue(ds) ==
    IF ds = <<>> THEN 0
    ELSE 10 * DecimalValue(SubSeq(ds, 1, Len(ds) - 1)) + DigitVal(ds[Len(ds)])

\* parseInt(s): undefined reads as the string "undefined"; leading white space is
\* skipped, a sign is read, then the longest run of digits; no digit gives NaN
parseInt(s) ==
    IF s = Undefined THEN NaN
    ELSE LET t    == StripLeadingSpace(s)
             neg  == t # <<>> /\ Head(t) = "-"
             body == IF t # <<>> /\ Head(t) \in {"-", "+"} THEN Tail(t) ELSE t
             ds   == DigitPrefix(body)
         IN  IF ds = <<>> THEN NaN
             ELSE Num(IF neg THEN 0 - DecimalValue(ds) ELSE DecimalValue(ds))

\* a > b on numbers: every comparison with NaN is false
Gt(a, b) == ~a.nan /\ ~b.nan /\ a.n > b.n

----------------------------------------------------------------------------
(* Module options *)

labelPrefix == <<"docker-backup-tool">>

backupDir == <<"/backups">>

Key(suffix) == labelPrefix \o <<suffix>>

----------------------------------------------------------------------------
(* extractBackupConfig *)

\* the default written after `??`
DefaultRetention == 7

\* a ?? b where a is a number: a number, NaN included, is neither null nor undefined
NullishNum(a, b) == a

\* parseInt(labels[`${prefix}.retention`]) ?? 7
RetentionOf(label) == NullishNum(parseInt(label), Num(DefaultRetention))

extractBackupConfig(container) ==
    LET labels == container.Labels
    IN  [ containerId   |-> container.Id,
          containerName |-> ReplaceFirst(container.Names[1], "/"),
          enabled       |-> Get(labels, Key(".backup")) = <<"t", "r", "u", "e">>,
          command       |-> Get(labels, Key(".command")),
          location      |-> Nullish(Get(labels, Key(".location")), <<"/tmp/backup">>),
          schedule      |-> Get(labels, Key(".schedule")),
          retention     |-> RetentionOf(Get(labels, Key(".retention"))),
          preCommand    |-> Get(labels, Key(".pre_command")),
          postCommand   |-> Get(labels, Key(".post_command")) ]

----------------------------------------------------------------------------
(* cleanupOldBackups *)

\* a file of a host directory is [name, mtime]; a directory is a set of files
\* with distinct names
NamesOf(dir) == {f.name : f \in dir}

FileNamed(dir, name) == CHOOSE f \in dir : f.name = name

\* every order fs.readdir may list the directory in
Listings(dir) ==
    {l \in [1..Cardinality(dir) -> NamesOf(dir)] :
        \A i, j \in DOMAIN l : i # j => l[i] # l[j]}

\* the listing without .filter((file) => file.includes('_'))
FilterSeqAll(s, c) == s

\* files.filter((file) => file.includes(c))
RECURSIVE FilterSeq(_, _)
FilterSeq(s, c) ==
    IF s = <<>> THEN <<>>
    ELSE IF IncludesChar(Head(s), c) THEN <<Head(s)>> \o FilterSeq(Tail(s), c)
    ELSE FilterSeq(Tail(s), c)

\* the sort with its comparator turned round, (a.mtime - b.mtime): oldest first
RECURSIVE InsertByMtimeAsc(_, _)
InsertByMtimeAsc(sorted, x) ==
    IF sorted = <<>> THEN <<x>>
    ELSE IF Head(sorted).mtime <= x.mtime
         THEN <<Head(sorted)>> \o InsertByMtimeAsc(Tail(sorted), x)
         ELSE <<x>> \o sorted

\* where a stable sort by (b.mtime - a.mtime) puts x among the files sorted so far:
\* after every file at least as recent
RECURSIVE InsertByMtimeDesc(_, _)
InsertByMtimeDesc(sorted, x) ==
    IF sorted = <<>> THEN <<x>>
    ELSE IF Head(sorted).mtime >= x.mtime
         THEN <<Head(sorted)>> \o InsertByMtimeDesc(Tail(sorted), x)
         ELSE <<x>> \o sorted

RECURSIVE SortByMtimeDesc(_)
SortByMtimeDesc(files) ==
    IF files = <<>> THEN <<>>
    ELSE InsertByMtimeDesc(SortByMtimeDesc(SubSeq(files, 1, Len(files) - 1)),
                           files[Len(files)])

\* Array.prototype.slice(start): NaN reads as 0, a negative start counts from the end
Slice(s, start) ==
    LET k == IF start.nan THEN 0
             ELSE IF start.n < 0 THEN (IF Len(s) + start.n < 0 THEN 0 ELSE Len(s) + start.n)
             ELSE IF start.n > Len(s) THEN Len(s)
             ELSE start.n
    IN  SubSeq(s, k + 1, Len(s))

\* files.filter(includes '_').map(stat).sort(newest first)
BackupFiles(dir, listing) ==
    LET names == FilterSeq(listing, "_")
    IN  SortByMtimeDesc([i \in DOMAIN names |-> FileNamed(dir, names[i])])

\* the selection with slice(retention + 1): one file too many is kept
FilesToDeleteButOne(dir, listing, retention) ==
    LET backupFiles == BackupFiles(dir, listing)
    IN  IF Gt(Num(Len(backupFiles)), retention)
        THEN Slice(backupFiles, Num(retention.n + 1)) ELSE <<>>

\* the selection with slice(0, retention): the newest files are the ones removed
FilesToDeleteNewest(dir, listing, retention) ==
    LET backupFiles == BackupFiles(dir, listing)
    IN  IF Gt(Num(Len(backupFiles)), retention)
        THEN SubSeq(backupFiles, 1, retention.n) ELSE <<>>

\* the files the loop is to remove
FilesToDelete(dir, listing, retention) ==
    LET backupFiles == BackupFiles(dir, listing)
    IN  IF Gt(Num(Len(backupFiles)), retention) THEN Slice(backupFiles, retention) ELSE <<>>

\* for (const file of filesToDelete) await fs.remove(file.path): the first removal
\* that throws leaves the loop for the catch block
RECURSIVE RemoveLoop(_, _)
RemoveLoop(files, failing) ==
    IF files = <<>> THEN {}
    ELSE IF Head(files).name \in failing THEN {}
    ELSE {Head(files)} \cup RemoveLoop(Tail(files), failing)

\* cleanupOldBackups on a directory that readdir lists as `listing`, when removing
\* the files named in `failing` throws: what it selected, what it removed, what is left
cleanupOldBackups(dir, listing, retention, failing) ==
    LET filesToDelete == FilesToDelete(dir, listing, retention)
        removed       == RemoveLoop(filesToDelete, failing)
    IN  [ selected  |-> {filesToDelete[i] : i \in DOMAIN filesToDelete},
          removed   |-> removed,
          failing   |-> failing,
          before    |-> dir,
          after     |-> dir \ removed,
          retention |-> retention ]

----------------------------------------------------------------------------
(* Inputs of the unit specifications *)

LabelChars == {"-", "0", "1", "2", "a", " "}

\* every string of at most MaxLabelLen characters, and the missing label
LabelValues ==
    {Undefined} \cup UNION {[1..n -> LabelChars] : n \in 0..MaxLabelLen}

Str_true == <<"t", "r", "u", "e">>

Str_True == <<"T", "r", "u", "e">>

Str_cmd == <<"c", "m", "d">>

\* label sets: the enable label, the command and the retention vary
LabelSets ==
    { [k \in {Key(".backup"), Key(".command"), Key(".retention")} \ absent |->
          IF k = Key(".backup") THEN b ELSE IF k = Key(".command") THEN Str_cmd ELSE r]
      : b \in {Str_true, Str_True},
        r \in LabelValues \ {Undefined},
        absent \in SUBSET {Key(".backup"), Key(".command"), Key(".retention")} }

ContainerInfos ==
    {[Id |-> <<"i", "d">>, Names |-> << <<"/", "d", "b">> >>, Labels |-> l] : l \in LabelSets}

MainIdle ==
    /\ docker = <<>>
    /\ cron = "none"
    /\ runs = <<>>
    /\ hostFs = <<>>
    /\ clock = 0
    /\ fired = 0
    /\ boot = "none"

mainVars == <<docker, cron, runs, hostFs, clock, fired, boot>>

----------------------------------------------------------------------------
(* SpecConfig: extractBackupConfig applied to every label set *)

InitConfig ==
    /\ unitIn \in ContainerInfos
    /\ unitOut = <<>>
    /\ MainIdle

Extract ==
    /\ unitOut = <<>>
    /\ unitOut' = <<extractBackupConfig(unitIn)>>
    /\ UNCHANGED <<unitIn, mainVars>>

NextConfig == Extract

SpecConfig == InitConfig /\ [][NextConfig]_vars

\* a decimal integer literal: an optional minus sign, then digits only
IsNumeric(s) ==
    /\ s # Undefined
    /\ LET body == IF s # <<>> /\ Head(s) = "-" THEN Tail(s) ELSE s
       IN  body # <<>> /\ \A i \in DOMAIN body : IsDigit(body[i])

\* C2: whenever the `.retention` label is missing or is not a number,
\* extractBackupConfig returns retention = 7.
C2_DefaultRetention ==
    \A i \in DOMAIN unitOut :
        ~IsNumeric(Get(unitIn.Labels, Key(".retention"))) => unitOut[i].retention = Num(7)

\* C3: the retention extractBackupConfig returns is an integer >= 1, whatever
\* the `.retention` label holds.
C3_RetentionAtLeastOne ==
    \A i \in DOMAIN unitOut : ~unitOut[i].retention.nan /\ unitOut[i].retention.n >= 1

----------------------------------------------------------------------------
(* SpecCleanup: cleanupOldBackups called twice in succession on every directory *)

ArtifactName(i) == <<"d", "b", "_", Digits[i + 1]>>

FileNames == {ArtifactName(i) : i \in 1..MaxFiles} \cup {<<"n", "o", "t", "e", "s">>}

Mtimes == {1, 2, 3}

Dirs ==
    UNION { {{[name |-> n, mtime |-> m[n]] : n \in S} : m \in [S -> Mtimes]}
            : S \in {T \in SUBSET FileNames : Cardinality(T) <= MaxFiles} }

\* `.retention` labels: missing, no number, zero, positive, negative
RetentionLabels ==
    {Undefined, <<"a">>, <<"0">>, <<"1">>, <<"2">>, <<"3">>, <<"-", "1">>, <<"-", "2">>}

\* the retention values extractBackupConfig hands over for them
Retentions == {RetentionOf(l) : l \in RetentionLabels}

\* the files retention counts: those whose name contains '_'
Candidates(dir) == {f \in dir : IncludesChar(f.name, "_")}

InitCleanup ==
    /\ unitIn \in [dir : Dirs, retention : Retentions]
    /\ unitOut = <<>>
    /\ MainIdle

CleanupCall ==
    /\ Len(unitOut) < 2
    /\ LET dir == IF unitOut = <<>> THEN unitIn.dir ELSE unitOut[Len(unitOut)].after
       IN  \E listing \in Listings(dir) :
               \E failing \in SUBSET {f.name : f \in
                       cleanupOldBackups(dir, listing, unitIn.retention, {}).selected} :
                   unitOut' = Append(unitOut,
                       cleanupOldBackups(dir, listing, unitIn.retention, failing))
    /\ UNCHANGED <<unitIn, mainVars>>

NextCleanup == CleanupCall

SpecCleanup == InitCleanup /\ [][NextCleanup]_vars

\* no removal this call attempted threw
NoDeletionError(call) == NamesOf(call.selected) \cap call.failing = {}

\* the retention is a number R with 1 <= R < the number of candidates
ExceedsRetention(call) ==
    /\ ~call.retention.nan
    /\ call.retention.n >= 1
    /\ call.retention.n < Cardinality(Candidates(call.before))

\* C5: with N candidates and 1 <= R < N, a cleanupOldBackups that meets no deletion
\* error leaves exactly R candidates, and no deleted file is newer than a kept one.
C5_KeepsNewest ==
    \A i \in DOMAIN unitOut :
        LET call == unitOut[i]
            kept == Candidates(call.after)
            gone == Candidates(call.before) \ call.after
        IN  ExceedsRetention(call) /\ NoDeletionError(call) =>
                /\ Cardinality(kept) = call.retention.n
                /\ \A d \in gone, k \in kept : d.mtime <= k.mtime
                /\ call.before \ Candidates(call.before) \subseteq call.after

\* a call kept 2 of 3 candidates, where the deleted one is as old as a kept one
C5_Witness ==
    \E i \in DOMAIN unitOut :
        LET call == unitOut[i]
        IN  /\ ExceedsRetention(call) /\ NoDeletionError(call)
            /\ call.retention.n = 2
            /\ Cardinality(Candidates(call.before)) = 3
            /\ \E d \in call.removed, k \in Candidates(call.after) : d.mtime = k.mtime
            /\ \E d \in call.removed, k \in Candidates(call.after) : d.mtime < k.mtime

\* C6: a second cleanupOldBackups right after the first leaves the directory as the
\* first left it (stated for the runs in which no removal throws).
C6_Idempotent ==
    Len(unitOut) = 2 /\ NoDeletionError(unitOut[1]) /\ NoDeletionError(unitOut[2]) =>
        unitOut[2].after = unitOut[1].after

\* C7: every file selected for deletion whose removal does not throw is deleted by
\* the same call, whichever other removals throw (stated for a retention >= 1).
C7_DeletionErrorsIsolated ==
    \A i \in DOMAIN unitOut :
        ~unitOut[i].retention.nan /\ unitOut[i].retention.n >= 1 =>
            \A f \in unitOut[i].selected :
                f.name \notin unitOut[i].failing => f \notin unitOut[i].after

\* C17: cleanupOldBackups removes no entry whose name has no '_', whatever the
\* directory and the retention, and such entries are not counted: when the
\* entries with '_' are no more than the retention, nothing is removed.
C17_OnlyArtifactsPruned ==
    \A i \in DOMAIN unitOut :
        LET call   == unitOut[i]
            others == call.before \ Candidates(call.before)
        IN  /\ others \subseteq call.after
            /\ call.selected \cap others = {}
            /\ call.retention.nan => call.after = call.before
            /\ ~call.retention.nan
                  /\ Cardinality(Candidates(call.before)) <= call.retention.n =>
                      call.after = call.before

\* a call with retention 1 removed an artifact and left 2 entries: one artifact
\* and an entry without '_' that is older than the artifact removed
C17_Witness ==
    \E i \in DOMAIN unitOut :
        LET call == unitOut[i]
        IN  /\ call.retention = Num(1)
            /\ call.removed # {}
            /\ Cardinality(call.after) = 2
            /\ \E f \in call.after :
                   /\ ~IncludesChar(f.name, "_")
                   /\ \A d \in call.removed : f.mtime < d.mtime

\* C18 as written: with N artifacts and retention R, 1 <= R < N, after a pruning
\* that meets no deletion error exactly N - R artifacts remain.
C18_NMinusRRemain ==
    \A i \in DOMAIN unitOut :
        LET call == unitOut[i]
        IN  ExceedsRetention(call) /\ NoDeletionError(call) =>
                Cardinality(Candidates(call.after)) =
                    Cardinality(Candidates(call.before)) - call.retention.n

\* C18, amended: with N artifacts and retention R, 0 <= R < N, after a pruning that
\* meets no deletion error exactly R artifacts remain: N - R have been removed.
C18_ExactlyRRemain ==
    \A i \in DOMAIN unitOut :
        LET call == unitOut[i]
            N    == Cardinality(Candidates(call.before))
        IN  ~call.retention.nan /\ call.retention.n >= 0 /\ call.retention.n < N
              /\ NoDeletionError(call) =>
                  /\ Cardinality(Candidates(call.after)) = call.retention.n
                  /\ Cardinality(call.removed) = N - call.retention.n
                  /\ call.removed \subseteq Candidates(call.before)

\* 3 artifacts and retention 1: one remains, two are removed
C18_Witness ==
    \E i \in DOMAIN unitOut :
        LET call == unitOut[i]
        IN  /\ call.retention = Num(1)
            /\ NoDeletionError(call)
            /\ Cardinality(Candidates(call.before)) = 3
            /\ Cardinality(Candidates(call.after)) = 1
            /\ Cardinality(call.removed) = 2

----------------------------------------------------------------------------
(* execInContainer *)

\* output += data.toString(), for the chunks whose typeof is 'string'
RECURSIVE Accumulate(_)
Accumulate(chunks) ==
    IF chunks = <<>> THEN <<>>
    ELSE (IF Head(chunks).isString THEN Head(chunks).text ELSE <<>>)
             \o Accumulate(Tail(chunks))

\* everything the stream delivered, whatever the type of the chunks
RECURSIVE RawOutput(_)
RawOutput(chunks) ==
    IF chunks = <<>> THEN <<>> ELSE Head(chunks).text \o RawOutput(Tail(chunks))

Str_error == <<"e", "r", "r", "o", "r">>

Str_Error == <<"E", "r", "r", "o", "r">>

\* output.includes('Error') || output.includes('error')
HasErrorText(output) == Includes(output, Str_Error) \/ Includes(output, Str_error)

\* How the promise of execInContainer settles. call.createErr and call.startErr are
\* what the two callbacks receive as err: "none", "Error" (an instance of Error) or
\* "other" (any other truthy value); call.chunks are the 'data' events, call.term
\* is the event that ends the stream: "end" or "error". A callback that is handed
\* an err that is no Error goes on to use the missing exec or stream and throws
\* inside the callback; a stream that ends by 'error' never emits 'end': in both
\* cases neither resolve nor reject is called.
execInContainer(call) ==
    IF call.createErr = "Error" THEN "reject"
    ELSE IF call.createErr = "other" THEN "pending"
    ELSE IF call.startErr = "Error" THEN "reject"
    ELSE IF call.startErr = "other" THEN "pending"
    ELSE IF call.term # "end" THEN "pending"
    ELSE IF HasErrorText(Accumulate(call.chunks)) THEN "reject"
    ELSE "resolve"

----------------------------------------------------------------------------
(* SpecExec: execInContainer on every stream of at most MaxChunks chunks *)

ChunkTexts == {<<"e", "r", "r">>, <<"o", "r">>, <<"o", "k">>, Str_error, Str_Error}

Chunks == [isString : BOOLEAN, text : ChunkTexts]

ExecCalls ==
    [ createErr : {"none", "Error", "other"},
      startErr  : {"none", "Error", "other"},
      chunks    : UNION {[1..n -> Chunks] : n \in 0..MaxChunks},
      term      : {"end", "error"} ]

InitExec ==
    /\ unitIn \in ExecCalls
    /\ unitOut = <<>>
    /\ MainIdle

ExecSettle ==
    /\ unitOut = <<>>
    /\ unitOut' = <<execInContainer(unitIn)>>
    /\ UNCHANGED <<unitIn, mainVars>>

NextExec == ExecSettle

SpecExec == InitExec /\ [][NextExec]_vars

\* C10: when the exec is created and started without error and its stream ends,
\* execInContainer rejects if and only if what the stream delivered contains
\* "error" or "Error".
C10_ContentBasedFailure ==
    \A i \in DOMAIN unitOut :
        unitIn.createErr = "none" /\ unitIn.startErr = "none" /\ unitIn.term = "end" =>
            /\ unitOut[i] \in {"resolve", "reject"}
            /\ unitOut[i] = "reject" <=> HasErrorText(RawOutput(unitIn.chunks))

\* C20: execInContainer settles, by resolve or by reject, whenever the two
\* callbacks are invoked, with an err of any type or none, and the stream
\* terminates by 'end' or by 'error'.
C20_AlwaysSettles ==
    \A i \in DOMAIN unitOut : unitOut[i] \in {"resolve", "reject"}

----------------------------------------------------------------------------
(* The service: onModuleInit, the cron trigger, runBackups, executeBackup *)

Labelled(backup, command, retention, pre, post) ==
    LET given == [k \in {Key(".backup"), Key(".command"), Key(".retention"),
                         Key(".pre_command"), Key(".post_command")} |->
                     IF k = Key(".backup") THEN backup
                     ELSE IF k = Key(".command") THEN command
                     ELSE IF k = Key(".retention") THEN retention
                     ELSE IF k = Key(".pre_command") THEN pre
                     ELSE post]
    IN  [k \in {j \in DOMAIN given : given[j] # Undefined} |-> given[k]]

Str_pre == <<"p", "r", "e">>

Str_post == <<"p", "o", "s", "t">>

\* the containers docker may hold: db with every label, web with a command only,
\* nc enabled without a command, off with the enable label "True", bare without
\* the enable label
KnownContainers ==
    { [Id |-> <<"1">>, Names |-> << <<"/", "d", "b">> >>,
       Labels |-> Labelled(Str_true, Str_cmd, <<"1">>, Str_pre, Str_post)],
      [Id |-> <<"2">>, Names |-> << <<"/", "w", "e", "b">> >>,
       Labels |-> Labelled(Str_true, Str_cmd, Undefined, Undefined, Undefined)],
      [Id |-> <<"3">>, Names |-> << <<"/", "n", "c">> >>,
       Labels |-> Labelled(Str_true, Undefined, <<"2">>, Undefined, Undefined)],
      [Id |-> <<"4">>, Names |-> << <<"/", "o", "f", "f">> >>,
       Labels |-> Labelled(Str_True, Str_cmd, <<"2">>, Undefined, Undefined)],
      [Id |-> <<"5">>, Names |-> << <<"/", "b", "a", "r", "e">> >>,
       Labels |-> Labelled(Undefined, Str_cmd, Undefined, Undefined, Undefined)] }

\* docker's list: at most MaxContainers containers, no two alike
DockerLists ==
    UNION { {l \in [1..n -> KnownContainers] : \A i, j \in 1..n : i # j => l[i] # l[j]}
            : n \in 0..MaxContainers }

\* the filter with a truthiness test, labels[`${prefix}.backup`], in place of === 'true'
RECURSIVE FilterLabelled(_)
FilterLabelled(list) ==
    IF list = <<>> THEN <<>>
    ELSE IF Truthy(Get(Head(list).Labels, Key(".backup")))
         THEN <<Head(list)>> \o FilterLabelled(Tail(list))
         ELSE FilterLabelled(Tail(list))

\* containers.filter(labels[`${prefix}.backup`] === 'true')
RECURSIVE FilterEnabled(_)
FilterEnabled(list) ==
    IF list = <<>> THEN <<>>
    ELSE IF Get(Head(list).Labels, Key(".backup")) = Str_true
         THEN <<Head(list)>> \o FilterEnabled(Tail(list))
         ELSE FilterEnabled(Tail(list))

\* getBackupContainers: the filtered list, or [] when listContainers throws
getBackupContainers(list, ok) == IF ok THEN FilterEnabled(list) ELSE <<>>

RECURSIVE ReplaceAll(_, _, _)
ReplaceAll(s, from, to) ==
    IF s = <<>> THEN <<>>
    ELSE <<IF Head(s) \in from THEN to ELSE Head(s)>> \o ReplaceAll(Tail(s), from, to)

\* new Date().toISOString(), shortened to its time of day
toISOString(t) ==
    <<"T", Digits[((t \div 10) % 10) + 1], Digits[(t % 10) + 1],
      ":", "0", "0", ".", "0", "Z">>

\* `${config.containerName}_${timestamp}`, timestamp with ':' and '.' made '-'
BackupFileName(config, t) ==
    config.containerName \o <<"_">> \o ReplaceAll(toISOString(t), {":", "."}, "-")

\* path.join(this.moduleOptions.backupDir, config.containerName)
hostBackupPath(config) == backupDir \o <<"/">> \o config.containerName

\* the configuration of the container a run is at
ConfigOf(run) == extractBackupConfig(run.containers[run.idx])

\* the loop of runBackups without its `if (!config.command) continue`
NextEnabled(containers, from) ==
    LET enabled == {j \in from..Len(containers) : extractBackupConfig(containers[j]).enabled}
    IN  IF enabled = {} THEN 0
        ELSE CHOOSE j \in enabled : \A k \in enabled : j <= k

\* the first container from index `from` on that runBackups hands to executeBackup:
\* enabled and with a command; 0 when the loop ends
NextEligible(containers, from) ==
    LET eligible == {j \in from..Len(containers) :
                        LET config == extractBackupConfig(containers[j])
                        IN  config.enabled /\ Truthy(config.command)}
    IN  IF eligible = {} THEN 0
        ELSE CHOOSE j \in eligible : \A k \in eligible : j <= k

\* a step begins: it is the run's position and the last entry of the trace of
\* this executeBackup
Begin(run, step) ==
    [run EXCEPT !.pc = step,
                !.trace = Append(@, [step |-> step, out |-> "running"])]

\* the step in progress ends with `out`: "ok", "failed", or "hung"
End(run, out) == [run EXCEPT !.trace[Len(run.trace)].out = out]

\* the for loop of runBackups from index `from`: executeBackup starts for the next
\* eligible container (it reads the clock and awaits ensureDir), or the loop ends
\* and runBackups returns its results
LoopFrom(run, from, now) ==
    LET j == NextEligible(run.containers, from)
    IN  IF j = 0 THEN [run EXCEPT !.pc = "done", !.idx = 0, !.trace = <<>>]
        ELSE Begin([run EXCEPT !.idx = j, !.timestamp = now, !.trace = <<>>], "ensureDir")

\* executeBackup returns `success`: its promise is resolved, runBackups resumes in
\* a later microtask
Returned(run, success) == [run EXCEPT !.pc = "returned", !.ret = success]

\* executeBackup with the post-command run before the copy
NextStepPostBeforeCopy(step, config) ==
    CASE step = "ensureDir" ->
             IF Truthy(config.preCommand) THEN "pre"
             ELSE IF Truthy(config.command) THEN "main" ELSE "copy"
      [] step = "pre"  -> IF Truthy(config.command) THEN "main" ELSE "copy"
      [] step = "main" -> IF Truthy(config.postCommand) THEN "post" ELSE "copy"
      [] step = "post" -> "copy"
      [] step = "copy" -> "cleanup"
      [] step = "cleanup" -> "return"

\* the step executeBackup awaits after `step` has succeeded; "return" is return true
NextStep(step, config) ==
    CASE step = "ensureDir" ->
             IF Truthy(config.preCommand) THEN "pre"
             ELSE IF Truthy(config.command) THEN "main" ELSE "copy"
      [] step = "pre"  -> IF Truthy(config.command) THEN "main" ELSE "copy"
      [] step = "main" -> "copy"
      [] step = "copy" -> IF Truthy(config.postCommand) THEN "post" ELSE "cleanup"
      [] step = "post" -> "cleanup"
      [] step = "cleanup" -> "return"

\* the awaited step succeeded
Succeeded(run) ==
    LET next == NextStep(run.pc, ConfigOf(run))
    IN  IF next = "return" THEN Returned(End(run, "ok"), TRUE)
        ELSE Begin(End(run, "ok"), next)

\* executeBackup with the post-command in a try block of its own, its error
\* logged and the backup carried on
CaughtUnlessPost(run) ==
    IF run.pc = "post" THEN Begin(End(run, "failed"), "cleanup")
    ELSE Returned(End(run, "failed"), FALSE)

\* the awaited step of the try block threw: the catch block returns false
Caught(run) == Returned(End(run, "failed"), FALSE)

NewRun ==
    [ pc |-> "list", containers |-> <<>>, idx |-> 0, timestamp |-> 0,
      results |-> <<>>, trace |-> <<>>, ret |-> FALSE ]

Finished(run) == run.pc \in {"done", "threw"}

\* the streams and callback errors an exec meets in the service
ServiceExecCalls ==
    { [createErr |-> "none", startErr |-> "none", term |-> "end",
       chunks |-> <<[isString |-> TRUE, text |-> <<"o", "k">>]>>],
      [createErr |-> "none", startErr |-> "none", term |-> "end",
       chunks |-> <<[isString |-> TRUE, text |-> <<"e", "r", "r">>],
                    [isString |-> TRUE, text |-> <<"o", "r">>]>>],
      [createErr |-> "none", startErr |-> "none", term |-> "end",
       chunks |-> <<[isString |-> FALSE, text |-> Str_error]>>],
      [createErr |-> "Error", startErr |-> "none", term |-> "end", chunks |-> <<>>],
      [createErr |-> "none", startErr |-> "none", term |-> "error", chunks |-> <<>>] }

Init ==
    /\ unitIn = <<>>
    /\ unitOut = <<>>
    /\ docker \in DockerLists
    /\ cron = "none"
    /\ runs = <<>>
    /\ hostFs = <<>>
    /\ clock = 0
    /\ fired = 0
    /\ boot = "none"

\* onTick: runBackups runs up to its first await, docker.listContainers
Tick ==
    /\ fired' = fired + 1
    /\ clock' = clock + 1
    /\ runs' = Append(runs, NewRun)

\* onModuleInit up to its await: CronJob.from({start: true, runOnInit: true})
\* starts the job and calls onTick at once; fs.ensureDir(backupDir) is then awaited
onModuleInit ==
    /\ boot = "none"
    /\ cron = "none"
    /\ cron' = "running"
    /\ boot' = "ensureDir"
    /\ Tick
    /\ UNCHANGED <<unitIn, unitOut, docker, hostFs>>

\* fs.ensureDir(backupDir) settles: onModuleInit resolves, or it rejects. Nothing
\* in the service stops the job it has started
InitEnsureDirSettles ==
    /\ boot = "ensureDir"
    /\ boot' \in {"ready", "failed"}
    /\ UNCHANGED <<unitIn, unitOut, docker, cron, runs, hostFs, clock, fired>>

\* the job's timer fires with fewer than `cap` ticks behind it
CronFireBelow(cap) ==
    /\ cron = "running"
    /\ fired < cap
    /\ Tick
    /\ UNCHANGED <<unitIn, unitOut, docker, hostFs, cron, boot>>

\* the cron time matches only while no run is in flight: runBackups behind a busy flag
CronFireWhenNotBusy ==
    /\ \A r \in DOMAIN runs : runs[r].pc \in {"done", "threw"}
    /\ CronFireBelow(MaxTicks)

\* the job's timer fires after cronJob.stop() too
CronFireAfterStop ==
    /\ cron \in {"running", "stopped"}
    /\ fired < MaxTicks
    /\ Tick
    /\ UNCHANGED <<unitIn, unitOut, docker, hostFs, cron, boot>>

\* the cron time matches, while an earlier run may still be in progress
CronFire == CronFireBelow(MaxTicks)

\* onModuleDestroy: cronJob.stop(). The hook runs when the application context
\* is closed, and there is a context only once onModuleInit has resolved
onModuleDestroy ==
    /\ boot = "ready"
    /\ cron = "running"
    /\ cron' = "stopped"
    /\ UNCHANGED <<unitIn, unitOut, docker, runs, hostFs, clock, fired, boot>>

\* getBackupContainers without its try/catch: an error of listContainers leaves
\* runBackups
ListContainersDoneUncaught(r) ==
    /\ runs[r].pc = "list"
    /\ \E ok \in BOOLEAN :
           runs' = [runs EXCEPT ![r] =
               IF ~ok THEN [@ EXCEPT !.pc = "threw"]
               ELSE IF Len(FilterEnabled(docker)) = 0 THEN [@ EXCEPT !.pc = "done"]
               ELSE LoopFrom([@ EXCEPT !.containers = FilterEnabled(docker)], 1, clock)]
    /\ UNCHANGED <<unitIn, unitOut, docker, cron, hostFs, clock, fired, boot>>

\* listContainers settles: an empty list returns at once, else the loop starts
ListContainersDone(r) ==
    /\ runs[r].pc = "list"
    /\ \E ok \in BOOLEAN :
           LET containers == getBackupContainers(docker, ok)
           IN  runs' = [runs EXCEPT ![r] =
                   IF Len(containers) = 0 THEN [@ EXCEPT !.pc = "done"]
                   ELSE LoopFrom([@ EXCEPT !.containers = containers], 1, clock)]
    /\ UNCHANGED <<unitIn, unitOut, docker, cron, hostFs, clock, fired, boot>>

\* fs.ensureDir(hostBackupPath) settles; it is awaited before the try block, so
\* its error leaves executeBackup and runBackups
EnsureDirDone(r) ==
    /\ runs[r].pc = "ensureDir"
    /\ LET name == hostBackupPath(ConfigOf(runs[r]))
       IN  \/ /\ hostFs' = IF name \in DOMAIN hostFs THEN hostFs ELSE (name :> {}) @@ hostFs
              /\ runs' = [runs EXCEPT ![r] = Succeeded(@)]
           \/ /\ runs' = [runs EXCEPT ![r] = [End(@, "failed") EXCEPT !.pc = "threw"]]
              /\ UNCHANGED hostFs
    /\ UNCHANGED <<unitIn, unitOut, docker, cron, clock, fired, boot>>

\* the execInContainer of the pre-command, the main command or the post-command
\* settles, or never will
ExecDone(r) ==
    /\ runs[r].pc \in {"pre", "main", "post"}
    /\ \E call \in ServiceExecCalls :
           LET outcome == execInContainer(call)
           IN  runs' = [runs EXCEPT ![r] =
                   IF outcome = "resolve" THEN Succeeded(@)
                   ELSE IF outcome = "reject" THEN Caught(@)
                   ELSE [End(@, "hung") EXCEPT !.pc = "hung"]]
    /\ UNCHANGED <<unitIn, unitOut, docker, cron, hostFs, clock, fired, boot>>

\* `docker cp` settles: the artifact is in the host directory, or the copy failed
CopyDone(r) ==
    /\ runs[r].pc = "copy"
    /\ LET config == ConfigOf(runs[r])
           name   == hostBackupPath(config)
           file   == [name |-> BackupFileName(config, runs[r].timestamp), mtime |-> clock]
       IN  \/ /\ name \in DOMAIN hostFs
              /\ hostFs' = [hostFs EXCEPT ![name] =
                               {f \in @ : f.name # file.name} \cup {file}]
              /\ runs' = [runs EXCEPT ![r] = Succeeded(@)]
           \/ /\ runs' = [runs EXCEPT ![r] = Caught(@)]
              /\ UNCHANGED hostFs
    /\ UNCHANGED <<unitIn, unitOut, docker, cron, clock, fired, boot>>

\* cleanupOldBackups settles (it catches its own errors), executeBackup returns true
CleanupDone(r) ==
    /\ runs[r].pc = "cleanup"
    /\ \E config \in {ConfigOf(runs[r])} :
           \E name \in {hostBackupPath(config)} :
               \E listing \in Listings(hostFs[name]), failing \in SUBSET NamesOf(hostFs[name]) :
                   /\ hostFs' = [hostFs EXCEPT ![name] =
                         cleanupOldBackups(@, listing, config.retention, failing).after]
                   /\ runs' = [runs EXCEPT ![r] = Succeeded(@)]
    /\ UNCHANGED <<unitIn, unitOut, docker, cron, clock, fired, boot>>

\* runBackups resumes after `await this.executeBackup(config)`: results.push, then
\* the loop goes on
Resume(r) ==
    /\ runs[r].pc = "returned"
    /\ \E pushed \in {[runs[r] EXCEPT !.results =
                           Append(@, [container |-> ConfigOf(runs[r]).containerName,
                                      success |-> runs[r].ret])]} :
           runs' = [runs EXCEPT ![r] = LoopFrom(pushed, pushed.idx + 1, clock)]
    /\ UNCHANGED <<unitIn, unitOut, docker, cron, hostFs, clock, fired, boot>>

\* the cron time matches after every earlier run has ended
CronFireIdle ==
    /\ \A r \in DOMAIN runs : Finished(runs[r])
    /\ CronFire

\* an awaited promise of some run settles
ListContainersSettles == \E r \in DOMAIN runs : ListContainersDone(r)

EnsureDirSettles == \E r \in DOMAIN runs : EnsureDirDone(r)

ExecSettles == \E r \in DOMAIN runs : ExecDone(r)

CopySettles == \E r \in DOMAIN runs : CopyDone(r)

CleanupSettles == \E r \in DOMAIN runs : CleanupDone(r)

RunBackupsResumes == \E r \in DOMAIN runs : Resume(r)

Next ==
    \/ onModuleInit
    \/ InitEnsureDirSettles
    \/ CronFire
    \/ onModuleDestroy
    \/ ListContainersSettles
    \/ EnsureDirSettles
    \/ ExecSettles
    \/ CopySettles
    \/ CleanupSettles
    \/ RunBackupsResumes

Spec == Init /\ [][Next]_vars

\* the ticks do not overlap: the schedule leaves every run the time to end
NextSeq ==
    \/ onModuleInit
    \/ InitEnsureDirSettles
    \/ CronFireIdle
    \/ onModuleDestroy
    \/ ListContainersSettles
    \/ EnsureDirSettles
    \/ ExecSettles
    \/ CopySettles
    \/ CleanupSettles
    \/ RunBackupsResumes

SpecSeq == Init /\ [][NextSeq]_vars

----------------------------------------------------------------------------
(* SpecRetention: ticks that do not overlap and in which every step succeeds *)

\* one container with a command and a pre- and post-command, or two containers;
\* the retention is 1, 2 or 3
RetentionLists ==
    LET db(r)  == [Id |-> <<"1">>, Names |-> << <<"/", "d", "b">> >>,
                   Labels |-> Labelled(Str_true, Str_cmd, r, Str_pre, Str_post)]
        web(r) == [Id |-> <<"2">>, Names |-> << <<"/", "w", "e", "b">> >>,
                   Labels |-> Labelled(Str_true, Str_cmd, r, Undefined, Undefined)]
        labels == {<<"1">>, <<"2">>, <<"3">>}
    IN  {<<db(r)>> : r \in labels} \cup {<<web(q), db(r)>> : q \in {<<"2">>}, r \in labels}

InitRetention ==
    /\ unitIn = <<>>
    /\ unitOut = <<>>
    /\ docker \in RetentionLists
    /\ cron = "none"
    /\ runs = <<>>
    /\ hostFs = <<>>
    /\ clock = 0
    /\ fired = 0
    /\ boot = "none"

\* the cron time matches after every earlier run has ended
CronFireAfterRun ==
    /\ \A r \in DOMAIN runs : Finished(runs[r])
    /\ CronFireBelow(MaxRetentionTicks)

EnsureDirSucceeds ==
    \E r \in DOMAIN runs : EnsureDirDone(r) /\ runs'[r] = Succeeded(runs[r])

ExecSucceeds ==
    \E r \in DOMAIN runs : ExecDone(r) /\ runs'[r] = Succeeded(runs[r])

CopySucceeds ==
    \E r \in DOMAIN runs : CopyDone(r) /\ runs'[r] = Succeeded(runs[r])

\* cleanupOldBackups meets no removal that throws
CleanupSucceeds ==
    \E r \in DOMAIN runs :
        /\ CleanupDone(r)
        /\ LET config == ConfigOf(runs[r])
               name   == hostBackupPath(config)
           IN  \E listing \in Listings(hostFs[name]) :
                   hostFs'[name] =
                       cleanupOldBackups(hostFs[name], listing, config.retention, {}).after

NextRetention ==
    \/ onModuleInit
    \/ InitEnsureDirSettles
    \/ CronFireAfterRun
    \/ onModuleDestroy
    \/ ListContainersSettles
    \/ EnsureDirSucceeds
    \/ ExecSucceeds
    \/ CopySucceeds
    \/ CleanupSucceeds
    \/ RunBackupsResumes

SpecRetention == InitRetention /\ [][NextRetention]_vars

\* the ticks in which executeBackup returned true for the container
SuccessfulTicks(name) ==
    {r \in DOMAIN runs :
        \E k \in DOMAIN runs[r].results :
            runs[r].results[k] = [container |-> name, success |-> TRUE]}

\* the n latest ticks of S
Latest(S, n) == {r \in S : Cardinality({q \in S : q > r}) < n}

Min(a, b) == IF a < b THEN a ELSE b

\* C13: for a container with a command and a retention R >= 1, from an empty host
\* directory, after k successful ticks that do not overlap the directory
\* {backupDir}/{containerName} holds exactly min(k, R) files, and they are the
\* artifacts {containerName}_<timestamp> of the min(k, R) latest ticks.
C13_RetentionOverTicks ==
    (\A r \in DOMAIN runs : Finished(runs[r])) =>
        \A i \in DOMAIN docker :
            LET config == extractBackupConfig(docker[i])
                R      == config.retention
                S      == SuccessfulTicks(config.containerName)
                dir    == IF hostBackupPath(config) \in DOMAIN hostFs
                          THEN hostFs[hostBackupPath(config)] ELSE {}
            IN  config.enabled /\ Truthy(config.command) /\ ~R.nan /\ R.n >= 1 =>
                    /\ Cardinality(dir) = Min(Cardinality(S), R.n)
                    /\ NamesOf(dir) =
                           {BackupFileName(config, runs[r].timestamp) : r \in Latest(S, R.n)}

\* retention 2 and three successful ticks: the directory holds 2 artifacts
C13_Witness ==
    /\ \A r \in DOMAIN runs : Finished(runs[r])
    /\ \E i \in DOMAIN docker :
           LET config == extractBackupConfig(docker[i])
           IN  /\ config.retention = Num(2)
               /\ Cardinality(SuccessfulTicks(config.containerName)) = 3
               /\ hostBackupPath(config) \in DOMAIN hostFs
               /\ Cardinality(hostFs[hostBackupPath(config)]) = 2

----------------------------------------------------------------------------
(* Claims about the pipeline *)

\* the names of the containers of a run that are enabled and have a command,
\* among the first n
RECURSIVE EligibleNames(_, _)
EligibleNames(containers, n) ==
    IF n = 0 THEN <<>>
    ELSE LET config == extractBackupConfig(containers[n])
         IN  EligibleNames(containers, n - 1)
                 \o (IF config.enabled /\ Truthy(config.command)
                     THEN <<config.containerName>> ELSE <<>>)

ResultNames(run) == [k \in DOMAIN run.results |-> run.results[k].container]

\* C1: no failure while one container is processed makes runBackups fail, and a
\* run that ends has handed every enabled container with a command to executeBackup.
C1_ContainerIsolation ==
    \A r \in DOMAIN runs :
        /\ runs[r].pc # "threw"
        /\ runs[r].pc = "done" =>
               ResultNames(runs[r]) = EligibleNames(runs[r].containers, Len(runs[r].containers))

\* the retention a container is configured with, 7 when the label gives no number
ConfiguredRetention(config) ==
    IF config.retention.nan THEN DefaultRetention ELSE config.retention.n

\* C4: with ticks that do not overlap, whenever executeBackup has returned for a
\* container (true or false), its host directory holds at most `retention`
\* files whose name contains '_'.
C4_RetentionIsMaximum ==
    \A r \in DOMAIN runs :
        runs[r].pc = "returned" =>
            LET config == ConfigOf(runs[r])
            IN  Cardinality(Candidates(hostFs[hostBackupPath(config)]))
                    <= ConfiguredRetention(config)

StepsInTry == {"pre", "main", "copy", "post"}

\* C8: a failed pre-command, main command, copy or post-command is the last step of
\* its executeBackup, which then has not called cleanupOldBackups and returns false;
\* cleanupOldBackups is called only after every earlier step succeeded, and only
\* an executeBackup that called it returns true.
C8_AbortOnFirstFailure ==
    \A r \in DOMAIN runs :
        LET t == runs[r].trace
        IN  /\ \A k \in DOMAIN t :
                   t[k].out = "failed" /\ t[k].step \in StepsInTry =>
                       /\ k = Len(t)
                       /\ runs[r].pc = "returned" /\ runs[r].ret = FALSE
                       /\ \A j \in DOMAIN t : t[j].step # "cleanup"
            /\ \A k \in DOMAIN t :
                   t[k].step = "cleanup" => \A j \in 1..(k - 1) : t[j].out = "ok"
            /\ runs[r].pc = "returned" /\ runs[r].ret = TRUE =>
                   /\ t[Len(t)].step = "cleanup"
                   /\ \A k \in DOMAIN t : t[k].out = "ok"

\* an executeBackup returned false after its post-command failed, the artifact
\* copied and no cleanup called
C8_Witness ==
    \E r \in DOMAIN runs :
        LET t == runs[r].trace
        IN  /\ runs[r].pc = "returned" /\ runs[r].ret = FALSE
            /\ t[Len(t)] = [step |-> "post", out |-> "failed"]
            /\ \E k \in DOMAIN t : t[k] = [step |-> "copy", out |-> "ok"]
            /\ hostFs[hostBackupPath(ConfigOf(runs[r]))] # {}

\* the order of the steps of one executeBackup
ExpectedSteps(config) ==
    <<"ensureDir">>
        \o (IF Truthy(config.preCommand) THEN <<"pre">> ELSE <<>>)
        \o (IF Truthy(config.command) THEN <<"main">> ELSE <<>>)
        \o <<"copy">>
        \o (IF Truthy(config.postCommand) THEN <<"post">> ELSE <<>>)
        \o <<"cleanup">>

\* C9: the steps of an executeBackup begin in the order ensure-directory,
\* pre-command, main command, copy, post-command, cleanup, each after the one
\* before it has ended; and a container's pipeline begins only when executeBackup
\* has returned for every earlier container of the tick.
C9_StrictOrder ==
    \A r \in DOMAIN runs :
        LET run == runs[r]
            t   == run.trace
        IN  /\ run.idx # 0 =>
                   /\ Len(t) >= 1 /\ Len(t) <= Len(ExpectedSteps(ConfigOf(run)))
                   /\ \A k \in DOMAIN t : t[k].step = ExpectedSteps(ConfigOf(run))[k]
                   /\ ResultNames(run) = EligibleNames(run.containers, run.idx - 1)
            /\ \A k \in 1..(Len(t) - 1) : t[k].out = "ok"
            /\ run.pc \in {"ensureDir", "pre", "main", "copy", "post", "cleanup"} =>
                   t[Len(t)] = [step |-> run.pc, out |-> "running"]
            /\ run.pc \in {"returned", "threw", "hung"} => t[Len(t)].out # "running"

\* the second container's cleanup is in progress after the first one's
\* executeBackup went through pre-command and post-command and returned
C9_Witness ==
    \E r \in DOMAIN runs :
        /\ runs[r].idx = 2
        /\ runs[r].pc = "cleanup"
        /\ Len(runs[r].results) = 1
        /\ runs[r].results[1].success
        /\ Truthy(extractBackupConfig(runs[r].containers[1]).preCommand)

----------------------------------------------------------------------------
(* Claims about discovery and the scheduler *)

\* the executeBackup of run r is at, or has just returned for, container j
InExecuteBackup(run, j) ==
    run.idx = j /\ run.pc \in {"ensureDir", "pre", "main", "copy", "post", "cleanup",
                               "returned", "threw", "hung"}

\* C11: a discovered container that is enabled but has no `.command` label is never
\* handed to executeBackup, has no host directory and no entry in the results.
C11_NoCommandSkipped ==
    \A r \in DOMAIN runs :
        \A j \in DOMAIN runs[r].containers :
            LET config == extractBackupConfig(runs[r].containers[j])
            IN  config.enabled /\ config.command = Undefined =>
                    /\ ~InExecuteBackup(runs[r], j)
                    /\ hostBackupPath(config) \notin DOMAIN hostFs
                    /\ \A k \in DOMAIN runs[r].results :
                           runs[r].results[k].container # config.containerName

\* a tick has ended whose first container had no command and whose second
\* container was backed up
C11_Witness ==
    \E r \in DOMAIN runs :
        /\ runs[r].pc = "done"
        /\ Len(runs[r].containers) = 2
        /\ extractBackupConfig(runs[r].containers[1]).command = Undefined
        /\ Len(runs[r].results) = 1
        /\ hostBackupPath(extractBackupConfig(runs[r].containers[2])) \in DOMAIN hostFs

\* the containers docker lists whose enable label is not exactly "true"
NotExactlyTrue == {i \in DOMAIN docker : Get(docker[i].Labels, Key(".backup")) # Str_true}

\* C12: every container getBackupContainers returns carries the enable label
\* "true"; executeBackup is called only with an enabled configuration; a
\* container without the label or with another value is never handed to
\* executeBackup: it is in no run's list, no results, and has no host directory.
C12_OnlyExactlyTrue ==
    \A r \in DOMAIN runs :
        /\ \A j \in DOMAIN runs[r].containers :
               Get(runs[r].containers[j].Labels, Key(".backup")) = Str_true
        /\ runs[r].idx # 0 => ConfigOf(runs[r]).enabled
        /\ \A i \in NotExactlyTrue :
               LET config == extractBackupConfig(docker[i])
               IN  /\ \A j \in DOMAIN runs[r].containers : runs[r].containers[j] # docker[i]
                   /\ hostBackupPath(config) \notin DOMAIN hostFs
                   /\ \A k \in DOMAIN runs[r].results :
                          runs[r].results[k].container # config.containerName

\* docker lists a container labelled "True" and one labelled "true"; a run has
\* copied the artifact of the only container it was given
C12_Witness ==
    \E r \in DOMAIN runs :
        /\ \E i \in DOMAIN docker : Get(docker[i].Labels, Key(".backup")) = Str_True
        /\ Len(docker) = 2
        /\ Len(runs[r].containers) = 1
        /\ runs[r].pc = "post"

\* a run that has not ended and is not stuck on a promise that never settles
InFlight(run) == run.pc \notin {"done", "threw", "hung"}

\* the next step of run r: the promise it awaits settles
StepOf(r) ==
    \/ ListContainersDone(r)
    \/ EnsureDirDone(r)
    \/ ExecDone(r)
    \/ CopyDone(r)
    \/ CleanupDone(r)
    \/ Resume(r)

\* what one step may do to the scheduler
LifecycleStep ==
    /\ cron = "none" /\ cron' # "none" =>
           cron' = "running" /\ fired' = 1 /\ runs' = <<NewRun>>
    /\ cron = "running" =>
           \/ fired' = fired /\ Len(runs') = Len(runs)
           \/ fired' = fired + 1 /\ runs' = Append(runs, NewRun) /\ cron' = "running"
    /\ cron = "running" /\ cron' = "stopped" => runs' = runs
    /\ cron = "stopped" =>
           cron' = "stopped" /\ fired' = fired /\ Len(runs') = Len(runs)

\* C15: onModuleInit takes the scheduler from stopped to running and starts exactly
\* one run; while it is running every fire of the trigger starts one run;
\* onModuleDestroy cancels the trigger, so that no run starts afterwards, and leaves
\* the runs in flight as they are: each can still take its next step.
C15_SchedulerLifecycle ==
    /\ [](cron = "none" => fired = 0 /\ runs = <<>>)
    /\ [](Len(runs) = fired)
    /\ [][LifecycleStep]_vars
    /\ [](cron = "stopped" =>
             \A r \in DOMAIN runs : InFlight(runs[r]) => ENABLED StepOf(r))

\* after onModuleDestroy: one run has ended with a result and a later one is
\* still copying
C15_Witness ==
    /\ cron = "stopped"
    /\ Len(runs) = 2
    /\ runs[1].pc = "done" /\ runs[1].results # <<>>
    /\ runs[2].pc = "copy"

\* run r leaves its listContainers call with no container although docker holds
\* containers labelled for backup: the call failed
DiscoveryFailed(r) ==
    /\ runs[r].pc = "list"
    /\ runs'[r].pc # "list"
    /\ runs'[r].containers = <<>>
    /\ FilterEnabled(docker) # <<>>

\* C16: when listContainers fails, getBackupContainers returns the empty list and
\* does not throw: that run ends at once with no container handed to
\* executeBackup, no result and no host directory touched; the scheduler stays as
\* it is, and the run of every later fire begins with discovery again.
C16_DiscoveryFailureIsLocal ==
    /\ [][\A r \in DOMAIN runs :
             DiscoveryFailed(r) =>
                 /\ runs'[r] = [NewRun EXCEPT !.pc = "done"]
                 /\ hostFs' = hostFs
                 /\ cron' = cron
                 /\ \A q \in DOMAIN runs : q # r => runs'[q] = runs[q]]_vars
    /\ [][\A r \in DOMAIN runs' : r \notin DOMAIN runs => runs'[r].pc = "list"]_vars
    /\ [](\A r \in DOMAIN runs :
             runs[r].pc = "done" /\ runs[r].containers = <<>> =>
                 runs[r].results = <<>> /\ runs[r].idx = 0 /\ runs[r].trace = <<>>)

\* docker holds a container to back up; the first run found none, its discovery
\* having failed, and the second run has backed the container up
C16_Witness ==
    /\ FilterEnabled(docker) # <<>>
    /\ Len(runs) = 2
    /\ runs[1].pc = "done" /\ runs[1].containers = <<>>
    /\ runs[2].pc = "done" /\ runs[2].results # <<>> /\ runs[2].results[1].success

\* C19: nothing guards runBackups against a run in progress: as long as the job
\* runs (and the ticks drawn are not used up) the trigger can fire, whatever
\* the earlier runs are doing.
C19_NoMutualExclusion ==
    cron = "running" /\ fired < MaxTicks => ENABLED CronFire

\* two runs are in flight in the same container's host directory: one is
\* pruning it while the other is copying its artifact into it
C19_Witness ==
    \E r, q \in DOMAIN runs :
        /\ r # q
        /\ runs[r].pc = "cleanup"
        /\ runs[q].pc = "copy"
        /\ hostBackupPath(ConfigOf(runs[r])) = hostBackupPath(ConfigOf(runs[q]))

\* C14: when creating the backup root directory fails in onModuleInit, runBackups
\* has not been and is never invoked: neither the immediate run nor a scheduled one.
C14_StartupFailureIsFatal == boot = "failed" => fired = 0 /\ runs = <<>>

====
